---- MODULE Spec2Model ----
\* The chat route handler (POST) of the assistant web surface: request
\* validation, prompt assembly and the streaming relay that re-emits the
\* upstream agent's events as server-sent-event frames.
EXTENDS Integers, Sequences, FiniteSets, TLC

\* ---------------------------------------------------------------- bounds
\* Longest `messages` array of a request body.
MaxMsgs == 3
\* Most upstream events one run of the relay pulls.
MaxEvents == 3

\* ------------------------------------------------------------ JS values
Undefined == "undefined"

\* A caught value that is an Error instance, or one that is not.
ErrorValue(n, m) == [instance |-> TRUE, name |-> n, message |-> m]
NonErrorValue == [instance |-> FALSE, name |-> Undefined, message |-> Undefined]
NoError == [instance |-> FALSE, name |-> "none", message |-> "none"]

\* error instanceof Error ? error.name : 'Unknown'
ErrorName(e) == IF e.instance THEN e.name ELSE "Unknown"
\* error instanceof Error ? error.message : 'Unknown error'
ErrorMessage(e) == IF e.instance THEN e.message ELSE "Unknown error"

SyntaxError == ErrorValue("SyntaxError", "Unexpected token in JSON")
DestructureError == ErrorValue("TypeError", "Cannot destructure property 'messages' of null")
NullRoleError == ErrorValue("TypeError", "Cannot read properties of null (reading 'role')")
UndefinedLengthError == ErrorValue("TypeError", "Cannot read properties of undefined (reading 'length')")
InvalidStateError == ErrorValue("TypeError", "Invalid state: Controller is already closed")
\* What a failing call of the telemetry client throws.
SentryError == ErrorValue("Error", "telemetry failed")

requestId == "req-1"
SYSTEM_PROMPT == "You are a helpful personal assistant..."

\* --------------------------------------------------------- request bodies
\* One entry of a `messages` array as JSON can spell it: an object with an
\* optional role and an optional content, the literal null, or a number.
MessageObjects ==
    { [kind |-> "object", role |-> r, content |-> c] :
        r \in {"user", "assistant", Undefined}, c \in {"a", "b", Undefined} }
NullEntry == [kind |-> "null", role |-> Undefined, content |-> Undefined]
NumberEntry == [kind |-> "number", role |-> Undefined, content |-> Undefined]
Entries == MessageObjects \cup {NullEntry, NumberEntry}

RECURSIVE SeqsUpTo(_, _)
SeqsUpTo(S, n) ==
    IF n = 0 THEN {<<>>}
    ELSE LET shorter == SeqsUpTo(S, n - 1)
         IN shorter \cup { Append(q, x) : q \in shorter, x \in S }

\* The value of the body's `messages` property.
NonArrayValues ==
    { [kind |-> k, items |-> <<>>] : k \in {Undefined, "null", "string", "number", "object"} }
ArrayValue(items) == [kind |-> "array", items |-> items]

\* The request body: text that is not JSON, the JSON literal null, a JSON
\* primitive, or a JSON object with (or without) a `messages` property.
ObjectBody(m) == [kind |-> "object", messages |-> m]
OtherBody(k) == [kind |-> k, messages |-> [kind |-> Undefined, items |-> <<>>]]
Bodies ==
    { OtherBody(k) : k \in {"invalid", "null", "number", "string"} }
      \cup { ObjectBody(m) : m \in NonArrayValues }
      \cup { ObjectBody(ArrayValue(items)) : items \in SeqsUpTo(Entries, MaxMsgs) }

\* No request yet.
NoBody == OtherBody("none")

User(c) == [kind |-> "object", role |-> "user", content |-> c]
Assistant(c) == [kind |-> "object", role |-> "assistant", content |-> c]

\* The bodies the relay is run on.
RelayBodies ==
    { OtherBody("null"),
      ObjectBody([kind |-> Undefined, items |-> <<>>]),
      ObjectBody(ArrayValue(<<>>)),
      ObjectBody(ArrayValue(<<User("a")>>)),
      ObjectBody(ArrayValue(<<User("a"), Assistant("b"), User("b")>>)) }

\* ------------------------------------------------------ upstream events
TextDelta(t) ==
    [type |-> "stream_event",
     event |-> [type |-> "content_block_delta", delta |-> [type |-> "text_delta", text |-> t]]]
JsonDelta ==
    [type |-> "stream_event",
     event |-> [type |-> "content_block_delta", delta |-> [type |-> "input_json_delta"]]]
MessageStart == [type |-> "stream_event", event |-> [type |-> "message_start"]]
ToolUse(n) == [type |-> "tool_use", name |-> n, id |-> n]
TextBlock == [type |-> "text"]
AssistantMessage(blocks) ==
    [type |-> "assistant", message |-> [isArray |-> TRUE, content |-> blocks]]
AssistantNoContent ==
    [type |-> "assistant", message |-> [isArray |-> FALSE, content |-> <<>>]]
ToolProgress(n, t) == [type |-> "tool_progress", tool_name |-> n, elapsed_time_seconds |-> t]
Result(sub) == [type |-> "result", subtype |-> sub]
SystemEvent == [type |-> "system"]
NoEvent == [type |-> "none"]

BlockLists ==
    { <<>>, <<TextBlock>>, <<ToolUse("search")>>, <<TextBlock, ToolUse("search")>>,
      <<ToolUse("search"), ToolUse("read")>> }

UpstreamEvents ==
    { TextDelta("a"), JsonDelta, MessageStart, AssistantNoContent, SystemEvent,
      ToolProgress("search", 1),
      Result("success"), Result("error_max_turns"), Result("error_during_execution") }
      \cup { AssistantMessage(b) : b \in BlockLists }

\* What a pull of the upstream iterator can reject with.
UpstreamErrors == { ErrorValue("Error", "upstream failed"), NonErrorValue }

\* ------------------------------------------------------------- state
VARIABLES
    pc,               \* "idle", "responded", "streaming", "done", "failed", "crashed"
    body,             \* the request body POST was called with
    response,         \* the Response POST returned
    fullPrompt,       \* the prompt handed to query()
    queryCalled,      \* whether query() was called
    upstream,         \* the upstream iterator: "none", "open", "exhausted", "threw", "returned"
    pulled,           \* number of events the upstream iterator has yielded
    lastEvent,        \* the event yielded last
    chunkCount, textDeltaCount, toolsUsedCount, parseErrorCount,
    breadcrumbs,      \* Sentry.addBreadcrumb calls, in order
    exceptions,       \* Sentry.captureException calls, in order
    outbound,         \* the chunks controller.enqueue accepted, in order
    origin,           \* for each chunk of outbound, <<event number, block number>>
    streamState,      \* the ReadableStream: "none", "readable", "closed", "errored"
    closeRequested,   \* controller.close() was called
    delivered,        \* number of chunks the client has read
    cancelled,        \* the client cancelled the stream
    sentryFails,      \* calls of the telemetry client throw
    scopeContexts,    \* Sentry.setContext calls, in order
    inflight,         \* two requests in flight at once, each with its own locals
    windows,          \* WindowManagerProvider: the window list
    topZIndex,        \* WindowManagerProvider: the highest z-index handed out
    windowBreadcrumb  \* the breadcrumb the window manager recorded last

vars ==
    << pc, body, response, fullPrompt, queryCalled, upstream, pulled, lastEvent,
       chunkCount, textDeltaCount, toolsUsedCount, parseErrorCount,
       breadcrumbs, exceptions, outbound, origin, streamState, closeRequested,
       delivered, cancelled, sentryFails, scopeContexts, inflight,
       windows, topZIndex, windowBreadcrumb >>

\* The state of the window manager.
desktop == <<windows, topZIndex, windowBreadcrumb>>
\* useState(100)
InitialZIndex == 100
NoBreadcrumb == [message |-> <<>>, window_id |-> "none"]

\* The part of the state the handler's code reads and writes, as one record;
\* `thrown` is the exception in flight (NoError when there is none).
Local ==
    [chunkCount |-> chunkCount, textDeltaCount |-> textDeltaCount,
     toolsUsedCount |-> toolsUsedCount, parseErrorCount |-> parseErrorCount,
     breadcrumbs |-> breadcrumbs, exceptions |-> exceptions, contexts |-> scopeContexts,
     outbound |-> outbound, origin |-> origin,
     streamState |-> streamState, closeRequested |-> closeRequested,
     sentryFails |-> sentryFails,
     requestId |-> requestId,
     thrown |-> NoError]

NoResponse == [status |-> 0, contentType |-> "none", body |-> [none |-> TRUE]]

\* The locals of a handler invocation that has just been entered, with the
\* request id randomUUID() gave it and nothing recorded yet.
Entered(id) ==
    [chunkCount |-> 0, textDeltaCount |-> 0, toolsUsedCount |-> 0, parseErrorCount |-> 0,
     breadcrumbs |-> <<>>, exceptions |-> <<>>, contexts |-> <<>>,
     outbound |-> <<>>, origin |-> <<>>,
     streamState |-> "none", closeRequested |-> FALSE,
     sentryFails |-> FALSE,
     requestId |-> id,
     thrown |-> NoError]

\* The requests of the two-request specification and their ids.
Requests == {1, 2}
\* One id for every invocation.
RequestIdShared(r) == "req-1"
RequestIdOf(r) == IF r = 1 THEN requestId ELSE "req-2"

\* An invocation not yet entered; `inputs` is what it was given so far.
NotEntered(r) ==
    [pc |-> "idle", response |-> NoResponse, upstream |-> "none", cancelled |-> FALSE,
     inputs |-> <<>>, loc |-> Entered(RequestIdOf(r))]

Threw(s) == s.thrown # NoError

Init ==
    /\ pc = "idle"
    /\ body = NoBody
    /\ response = NoResponse
    /\ fullPrompt = <<>>
    /\ queryCalled = FALSE
    /\ upstream = "none"
    /\ pulled = 0
    /\ lastEvent = NoEvent
    /\ chunkCount = 0 /\ textDeltaCount = 0 /\ toolsUsedCount = 0 /\ parseErrorCount = 0
    /\ breadcrumbs = <<>>
    /\ exceptions = <<>>
    /\ outbound = <<>>
    /\ origin = <<>>
    /\ streamState = "none"
    /\ closeRequested = FALSE
    /\ delivered = 0
    /\ cancelled = FALSE
    /\ sentryFails = FALSE
    /\ scopeContexts = <<>>
    /\ inflight = [r \in Requests |-> NotEntered(r)]
    /\ windows = <<>>
    /\ topZIndex = InitialZIndex
    /\ windowBreadcrumb = NoBreadcrumb

\* ------------------------------------------------------------ telemetry
\* Sentry.addBreadcrumb: the record is appended to the process-wide trail.
\* (Timestamps and durations, which come from the clock, are left out of data.)
\* Like every statement below, it is not reached when an exception is in
\* flight; a failing telemetry client makes the call itself throw.
addBreadcrumb(s, category, message, level, data) ==
    IF Threw(s) THEN s
    ELSE IF s.sentryFails THEN [s EXCEPT !.thrown = SentryError]
    ELSE [s EXCEPT !.breadcrumbs =
            Append(@, [category |-> category, message |-> message, level |-> level,
                       data |-> data])]

\* Sentry.captureException(error, {tags, contexts}).
captureException(s, error, tags, contexts) ==
    IF Threw(s) THEN s
    ELSE IF s.sentryFails THEN [s EXCEPT !.thrown = SentryError]
    ELSE [s EXCEPT !.exceptions =
            Append(@, [error |-> error, tags |-> tags, contexts |-> contexts])]

\* Sentry.setContext(key, value).
setContext(s, key, value) ==
    IF Threw(s) THEN s
    ELSE IF s.sentryFails THEN [s EXCEPT !.thrown = SentryError]
    ELSE [s EXCEPT !.contexts = Append(@, [key |-> key, value |-> value])]

\* ------------------------------------------------- outbound stream frames
\* JSON.stringify of a frame object: the JSON text, kept structured.
stringify(obj) == [json |-> obj]
\* `data: ${payload}\n\n`, encoded.
SseChunk(payload) == <<"data: ", payload, "\n\n">>
Frame(obj) == SseChunk(stringify(obj))
DoneSentinel == SseChunk([raw |-> "[DONE]"])

IsFrame(chunk) == "json" \in DOMAIN chunk[2]
FrameType(chunk) == IF IsFrame(chunk) THEN chunk[2].json.type ELSE "[DONE]"

\* The queue bound of a ReadableStream constructed without a queuing
\* strategy: a high-water mark of one chunk.
HighWaterMark == 1

\* ReadableStreamDefaultControllerCanCloseOrEnqueue.
CanCloseOrEnqueue(s) == ~s.closeRequested /\ s.streamState = "readable"

\* controller.enqueue(chunk): appends to the stream's queue, or throws a
\* TypeError when the stream is no longer readable or close was requested.
enqueue(s, chunk, org) ==
    IF Threw(s) THEN s
    ELSE IF CanCloseOrEnqueue(s)
    THEN [s EXCEPT !.outbound = Append(@, chunk), !.origin = Append(@, org)]
    ELSE [s EXCEPT !.thrown = InvalidStateError]

\* controller.close(): requests the close; the stream closes at once when
\* nothing is queued (n chunks were read so far).
close(s, n) ==
    IF Threw(s) THEN s
    ELSE IF CanCloseOrEnqueue(s)
    THEN [s EXCEPT !.closeRequested = TRUE,
                   !.streamState = IF n = Len(s.outbound) THEN "closed" ELSE @]
    ELSE [s EXCEPT !.thrown = InvalidStateError]

\* ----------------------------------------------------- the relay's loop
\* A loop that forgets to count the event.
CountChunkForgotten(s) == s

\* chunkCount++
CountChunk(s) == [s EXCEPT !.chunkCount = @ + 1]

IsTextDelta(e) ==
    /\ e.type = "stream_event"
    /\ e.event.type = "content_block_delta"
    /\ e.event.delta.type = "text_delta"

\* Text deltas enqueued without a try/catch of their own.
HandleTextDeltaUncaught(s, e) ==
    IF ~IsTextDelta(e) THEN s
    ELSE enqueue([s EXCEPT !.textDeltaCount = @ + 1],
                 Frame([type |-> "text_delta", text |-> e.event.delta.text]),
                 <<s.chunkCount, 0>>)

\* Streaming text deltas: the enqueue is inside its own try/catch.
HandleTextDelta(s, e) ==
    IF ~IsTextDelta(e) THEN s
    ELSE LET s1 == [s EXCEPT !.textDeltaCount = @ + 1]
             s2 == enqueue(s1, Frame([type |-> "text_delta", text |-> e.event.delta.text]),
                           <<s1.chunkCount, 0>>)
         IN IF ~Threw(s2) THEN s2
            ELSE addBreadcrumb([s1 EXCEPT !.parseErrorCount = @ + 1],
                     "chat.stream", <<"Parse error during text delta encoding">>, "warning",
                     [request_id |-> s.requestId, error_type |-> "text_delta_encoding",
                      error |-> s2.thrown.message])

\* The block loop run from the last block to the first.
RECURSIVE ToolStartsReversed(_, _, _)
ToolStartsReversed(s, blocks, i) ==
    IF Threw(s) \/ i > Len(blocks) THEN s
    ELSE LET j == Len(blocks) + 1 - i
         IN IF blocks[j].type # "tool_use" THEN ToolStartsReversed(s, blocks, i + 1)
            ELSE LET s1 == [s EXCEPT !.toolsUsedCount = @ + 1]
                     s3 == enqueue(s1, Frame([type |-> "tool_start", tool |-> blocks[j].name]),
                                   <<s1.chunkCount, j>>)
                 IN ToolStartsReversed(s3, blocks, i + 1)

\* for (const block of content): blocks i.. of the assistant message.
RECURSIVE ToolStarts(_, _, _)
ToolStarts(s, blocks, i) ==
    IF Threw(s) \/ i > Len(blocks) THEN s
    ELSE IF blocks[i].type # "tool_use" THEN ToolStarts(s, blocks, i + 1)
    ELSE LET s1 == [s EXCEPT !.toolsUsedCount = @ + 1]
             s2 == addBreadcrumb(s1, "chat.tool", <<"Tool started: ", blocks[i].name>>, "info",
                       [request_id |-> s.requestId, tool_name |-> blocks[i].name,
                        tool_id |-> blocks[i].id])
             s3 == enqueue(s2, Frame([type |-> "tool_start", tool |-> blocks[i].name]),
                           <<s2.chunkCount, i>>)
         IN ToolStarts(s3, blocks, i + 1)

\* An assistant message counted as a tool use whatever its blocks are.
HandleAssistantCounted(s, e) ==
    IF Threw(s) \/ e.type # "assistant" THEN s
    ELSE IF ~e.message.isArray THEN [s EXCEPT !.toolsUsedCount = @ + 1]
    ELSE ToolStarts([s EXCEPT !.toolsUsedCount = @ + 1], e.message.content, 1)

HandleAssistant(s, e) ==
    IF Threw(s) \/ e.type # "assistant" THEN s
    ELSE IF ~e.message.isArray THEN s
    ELSE ToolStarts(s, e.message.content, 1)

HandleToolProgress(s, e) ==
    IF Threw(s) \/ e.type # "tool_progress" THEN s
    ELSE enqueue(
           addBreadcrumb(s, "chat.tool", <<"Tool progress: ", e.tool_name>>, "info",
               [request_id |-> s.requestId, tool_name |-> e.tool_name,
                elapsed_seconds |-> e.elapsed_time_seconds]),
           Frame([type |-> "tool_progress", tool |-> e.tool_name,
                  elapsed |-> e.elapsed_time_seconds]),
           <<s.chunkCount, 0>>)

\* A success result that ends the stream on the spot.
HandleResultSuccessClosing(s, e) ==
    IF Threw(s) \/ e.type # "result" THEN s
    ELSE IF e.subtype # "success" THEN s
    ELSE LET s1 == enqueue(s, Frame([type |-> "done"]), <<s.chunkCount, 0>>)
         IN IF Threw(s1) THEN s1 ELSE [s1 EXCEPT !.closeRequested = TRUE]

HandleResultSuccess(s, e) ==
    IF Threw(s) \/ e.type # "result" THEN s
    ELSE IF e.subtype # "success" THEN s
    ELSE enqueue(s, Frame([type |-> "done"]), <<s.chunkCount, 0>>)

\* A non-success result whose subtype is echoed to the client.
HandleResultErrorLeaky(s, e) ==
    IF Threw(s) \/ e.type # "result" THEN s
    ELSE IF e.subtype = "success" THEN s
    ELSE enqueue(
           addBreadcrumb(s, "chat.stream", <<"Stream result error">>, "error",
               [request_id |-> s.requestId, subtype |-> e.subtype]),
           Frame([type |-> "error", message |-> e.subtype]),
           <<s.chunkCount, 0>>)

HandleResultError(s, e) ==
    IF Threw(s) \/ e.type # "result" THEN s
    ELSE IF e.subtype = "success" THEN s
    ELSE enqueue(
           addBreadcrumb(s, "chat.stream", <<"Stream result error">>, "error",
               [request_id |-> s.requestId, subtype |-> e.subtype]),
           Frame([type |-> "error", message |-> "Query did not complete successfully"]),
           <<s.chunkCount, 0>>)

\* The body of the for-await loop, run on one upstream event.
LoopBody(s, e) ==
    HandleResultError(
      HandleResultSuccess(
        HandleToolProgress(
          HandleAssistant(
            HandleTextDelta(CountChunk(s), e), e), e), e), e)

\* After the loop: the [DONE] marker, the close, the summary breadcrumb;
\* n chunks were read so far.
Closing(s, n) ==
    LET s1 == addBreadcrumb(s, "chat.stream", <<"Stream [DONE] marker sent">>, "info",
                  [request_id |-> s.requestId])
        s2 == enqueue(s1, DoneSentinel, <<s1.chunkCount + 1, 0>>)
        s3 == IF Threw(s2) THEN s2 ELSE close(s2, n)
    IN IF Threw(s3) THEN s3
       ELSE addBreadcrumb(s3, "chat.stream", <<"Chat stream completed">>, "info",
                [request_id |-> s.requestId, chunk_count |-> s3.chunkCount,
                 text_delta_count |-> s3.textDeltaCount,
                 tools_used_count |-> s3.toolsUsedCount,
                 parse_error_count |-> s3.parseErrorCount])

\* The catch block of start(): s.thrown is the caught value. What is thrown
\* inside the block (by enqueue or close) is left in `thrown`: start() rejects.
StreamCatch(s, n) ==
    LET error == s.thrown
        s1 == addBreadcrumb([s EXCEPT !.thrown = NoError],
                  "chat.stream", <<"Stream error">>, "error",
                  [request_id |-> s.requestId, error_name |-> ErrorName(error),
                   error_message |-> ErrorMessage(error)])
        s2 == captureException(s1, error,
                  [request_id |-> s.requestId, error_location |-> "stream_processing"],
                  [stream |-> [chunk_count |-> s1.chunkCount,
                               text_delta_count |-> s1.textDeltaCount,
                               tools_used_count |-> s1.toolsUsedCount]])
        s3 == enqueue(s2, Frame([type |-> "error", message |-> "Stream error occurred"]),
                      <<s2.chunkCount + 1, 0>>)
    IN IF Threw(s3) THEN s3 ELSE close(s3, n)

\* A rejected start(): the stream is errored, when it is still readable.
StartRejected(s) ==
    [s EXCEPT !.streamState = IF @ = "readable" THEN "errored" ELSE @]

\* start() after one step `s` of its try block: it goes on (`next`), or the
\* catch block runs and start() returns ("failed") or rejects ("crashed").
AfterTry(s, n, next) ==
    IF ~Threw(s) THEN [s |-> s, pc |-> next]
    ELSE LET c == StreamCatch(s, n)
         IN IF Threw(c) THEN [s |-> StartRejected(c), pc |-> "crashed"]
            ELSE [s |-> c, pc |-> "failed"]

\* ------------------------------------------------------- the POST handler
\* m.role, read off an entry that is not null.
Role(m) == IF m.kind = "object" THEN m.role ELSE Undefined
\* m.content inside a template string.
ContentText(m) == IF m.kind = "object" THEN m.content ELSE Undefined
\* content.length of a string content.
Length(c) == 1

IsUser(m) == Role(m) = "user"
\* messages.filter(m => m.role === 'user')
UserMessages(items) == SelectSeq(items, IsUser)
\* messages.slice(0, -1)
AllButLast(items) == SubSeq(items, 1, Len(items) - 1)
\* `${m.role === 'user' ? 'User' : 'Assistant'}: ${m.content}`
Render(m) == <<(IF Role(m) = "user" THEN "User" ELSE "Assistant"), ": ", ContentText(m)>>

\* .map(render).join('\n\n'), as the sequence of the pieces of the string.
RECURSIVE JoinRendered(_)
JoinRendered(items) ==
    IF items = <<>> THEN <<>>
    ELSE IF Len(items) = 1 THEN Render(items[1])
    ELSE Render(items[1]) \o <<"\n\n">> \o JoinRendered(Tail(items))

\* The prompt built from the messages of the transcript and the last content.
BuildPrompt(transcript, lastContent) ==
    LET conversationContext == JoinRendered(transcript)
    IN IF conversationContext # <<>>
       THEN <<SYSTEM_PROMPT, "\n\nPrevious conversation:\n">> \o conversationContext
              \o <<"\n\nUser: ", lastContent>>
       ELSE <<SYSTEM_PROMPT, "\n\nUser: ", lastContent>>

JsonResponse(code, text) ==
    [status |-> code, contentType |-> "application/json", body |-> [error |-> text]]
StreamResponse ==
    [status |-> 200, contentType |-> "text/event-stream", cacheControl |-> "no-cache",
     connection |-> "keep-alive", body |-> [stream |-> TRUE]]

\* What POST leaves behind.
Outcome(s, at, resp, prompt, called, iter) ==
    [s |-> s, pc |-> at, response |-> resp, fullPrompt |-> prompt,
     queryCalled |-> called, upstream |-> iter]

\* A validation failure: the warning breadcrumb, then the 400 response.
Rejected(s, kind, message, text) ==
    Outcome(addBreadcrumb(s, "chat.validation", <<message>>, "warning",
                [request_id |-> s.requestId, error_type |-> kind]),
            "responded", JsonResponse(400, text), <<>>, FALSE, "none")

\* What the caller of POST is left with when POST itself rejects.
UnhandledRejection == [status |-> 500, contentType |-> "none", body |-> [unhandled |-> TRUE]]

\* The handler's outer catch block; what it throws itself rejects POST.
ApiFailure(s, error) ==
    LET s1 == captureException(
                addBreadcrumb(s, "chat.api", <<"API error">>, "error",
                    [request_id |-> s.requestId, error_name |-> ErrorName(error),
                     error_message |-> ErrorMessage(error)]),
                error, [request_id |-> s.requestId, error_location |-> "api_handler"],
                [none |-> TRUE])
    IN IF Threw(s1)
       THEN Outcome([s1 EXCEPT !.thrown = NoError], "responded", UnhandledRejection,
                    <<>>, FALSE, "none")
       ELSE Outcome(s1, "responded",
                JsonResponse(500, "Failed to process chat request. Check server logs for details."),
                <<>>, FALSE, "none")

\* A handler that calls query() outside the try block of start().
StreamedUnguarded(s, items, lastUserMessage, prompt, queryThrows) ==
    LET s1 == addBreadcrumb(s, "chat.stream", <<"Chat stream started">>, "info",
                  [request_id |-> s.requestId, message_count |-> Len(items),
                   last_message_length |-> Length(lastUserMessage.content)])
    IN IF queryThrows
       THEN [ApiFailure(s1, ErrorValue("Error", "upstream failed")) EXCEPT !.queryCalled = TRUE]
       ELSE Outcome(addBreadcrumb([s1 EXCEPT !.streamState = "readable"],
                        "chat", <<"Request completed">>, "info", [request_id |-> s.requestId]),
                    "streaming", StreamResponse, prompt, TRUE, "open")

\* From the stream-start breadcrumb on: the ReadableStream is constructed,
\* which runs start() up to its first await (query() is called and the first
\* pull is issued, or query() throws and the catch block runs), then the
\* 200 response is returned.
Streamed(s, items, lastUserMessage, prompt, queryThrows) ==
    LET s1 == addBreadcrumb(s, "chat.stream", <<"Chat stream started">>, "info",
                  [request_id |-> s.requestId, message_count |-> Len(items),
                   last_message_length |-> Length(lastUserMessage.content)])
        s2 == [s1 EXCEPT !.streamState = "readable"]
        st == AfterTry(IF queryThrows
                       THEN [s2 EXCEPT !.thrown = ErrorValue("Error", "upstream failed")]
                       ELSE s2,
                       0, "streaming")
        s3 == addBreadcrumb(st.s, "chat", <<"Request completed">>, "info",
                  [request_id |-> s.requestId])
    IN Outcome(s3, st.pc, StreamResponse, prompt, TRUE,
               IF queryThrows THEN "none" ELSE "open")

\* The handler on an array-typed `messages`.
OnMessages(s, items, queryThrows) ==
    IF \E i \in 1..Len(items) : items[i].kind = "null"
    THEN ApiFailure(s, NullRoleError)
    ELSE LET users == UserMessages(items)
         IN IF users = <<>>
            THEN Rejected(s, "no_user_message", "Validation error: no user message",
                          "No user message found")
            ELSE LET lastUserMessage == users[Len(users)]
                     prompt == BuildPrompt(AllButLast(items), ContentText(lastUserMessage))
                 IN IF lastUserMessage.content = Undefined
                    THEN ApiFailure(s, UndefinedLengthError)
                    ELSE Streamed(s, items, lastUserMessage, prompt, queryThrows)

\* !messages || !Array.isArray(messages)
NotAnArray(m) == m.kind \in {Undefined, "null"} \/ m.kind # "array"

\* The handler up to `await request.json()`.
Received(s) ==
    setContext(addBreadcrumb(s, "chat", <<"Chat request received">>, "info",
                   [request_id |-> s.requestId]),
               "request", [request_id |-> s.requestId])

\* The handler from the resolved `await request.json()` on.
Validated(s0, b, queryThrows) ==
    IF Threw(s0) THEN ApiFailure([s0 EXCEPT !.thrown = NoError], s0.thrown)
    ELSE IF b.kind = "invalid" THEN ApiFailure(s0, SyntaxError)
    ELSE IF b.kind = "null" THEN ApiFailure(s0, DestructureError)
    ELSE IF NotAnArray(b.messages)
    THEN Rejected(s0, "missing_messages", "Validation error: missing messages",
                  "Messages array is required")
    ELSE OnMessages(s0, b.messages.items, queryThrows)

Handler(b, queryThrows) == Validated(Received(Local), b, queryThrows)

\* The handler's local state written back.
Commit(s) ==
    /\ chunkCount' = s.chunkCount
    /\ textDeltaCount' = s.textDeltaCount
    /\ toolsUsedCount' = s.toolsUsedCount
    /\ parseErrorCount' = s.parseErrorCount
    /\ breadcrumbs' = s.breadcrumbs
    /\ exceptions' = s.exceptions
    /\ outbound' = s.outbound
    /\ origin' = s.origin
    /\ streamState' = s.streamState
    /\ closeRequested' = s.closeRequested
    /\ scopeContexts' = s.contexts

POST(b, queryThrows) ==
    /\ pc = "idle"
    /\ body' = b
    /\ LET h == Handler(b, queryThrows)
       IN /\ Commit(h.s)
          /\ pc' = h.pc
          /\ response' = h.response
          /\ fullPrompt' = h.fullPrompt
          /\ queryCalled' = h.queryCalled
          /\ upstream' = h.upstream
    /\ UNCHANGED <<pulled, lastEvent, delivered, cancelled, sentryFails, inflight, desktop>>

\* ------------------------------------------------------- relay actions
\* The pending pull resolves with an event and the loop body runs on it; an
\* exception it lets out ends the loop (the iterator is returned) and runs
\* the catch block.
Pull(e) ==
    /\ pc = "streaming"
    /\ pulled < MaxEvents
    /\ pulled' = pulled + 1
    /\ lastEvent' = e
    /\ LET st == AfterTry(LoopBody(Local, e), delivered, "streaming")
       IN /\ Commit(st.s)
          /\ pc' = st.pc
          /\ upstream' = IF st.pc = "streaming" THEN upstream ELSE "returned"
    /\ UNCHANGED <<body, response, fullPrompt, queryCalled, delivered, cancelled, sentryFails,
                   inflight, desktop>>

\* The pending pull resolves with done: the loop ends.
Exhaust ==
    /\ pc = "streaming"
    /\ upstream' = "exhausted"
    /\ LET st == AfterTry(Closing(Local, delivered), delivered, "done")
       IN Commit(st.s) /\ pc' = st.pc
    /\ UNCHANGED <<body, response, fullPrompt, queryCalled, pulled, lastEvent,
                   delivered, cancelled, sentryFails, inflight, desktop>>

\* The pending pull rejects.
Throw(error) ==
    /\ pc = "streaming"
    /\ upstream' = "threw"
    /\ LET st == AfterTry([Local EXCEPT !.thrown = error], delivered, "streaming")
       IN Commit(st.s) /\ pc' = st.pc
    /\ UNCHANGED <<body, response, fullPrompt, queryCalled, pulled, lastEvent,
                   delivered, cancelled, sentryFails, inflight, desktop>>

\* The client reads the next queued chunk; a requested close takes effect
\* when the queue empties.
Read ==
    /\ streamState = "readable"
    /\ delivered < Len(outbound)
    /\ delivered' = delivered + 1
    /\ streamState' = IF closeRequested /\ delivered + 1 = Len(outbound)
                      THEN "closed" ELSE streamState
    /\ UNCHANGED <<pc, body, response, fullPrompt, queryCalled, upstream, pulled, lastEvent,
                   chunkCount, textDeltaCount, toolsUsedCount, parseErrorCount,
                   breadcrumbs, exceptions, outbound, origin, closeRequested, cancelled,
                   sentryFails, scopeContexts, inflight, desktop>>

\* The client disconnects: the stream is cancelled, which closes it and
\* drops what is queued. The underlying source has no cancel callback.
Cancel ==
    /\ streamState = "readable"
    /\ streamState' = "closed"
    /\ cancelled' = TRUE
    /\ UNCHANGED <<pc, body, response, fullPrompt, queryCalled, upstream, pulled, lastEvent,
                   chunkCount, textDeltaCount, toolsUsedCount, parseErrorCount,
                   breadcrumbs, exceptions, outbound, origin, closeRequested, delivered,
                   sentryFails, scopeContexts, inflight, desktop>>

Request == \E b \in RelayBodies, queryThrows \in BOOLEAN : POST(b, queryThrows)
PullEvent == \E e \in UpstreamEvents : Pull(e)
PullThrows == \E error \in UpstreamErrors : Throw(error)

Next == Request \/ PullEvent \/ Exhaust \/ PullThrows \/ Read \/ Cancel

Spec == Init /\ [][Next]_vars

\* The telemetry client starts to fail: from here on its calls throw.
SentryBreaks ==
    /\ ~sentryFails
    /\ sentryFails' = TRUE
    /\ UNCHANGED <<pc, body, response, fullPrompt, queryCalled, upstream, pulled, lastEvent,
                   chunkCount, textDeltaCount, toolsUsedCount, parseErrorCount,
                   breadcrumbs, exceptions, outbound, origin, streamState, closeRequested,
                   delivered, cancelled, scopeContexts, inflight, desktop>>

\* The relay with a telemetry client that can fail.
NextTelemetry == Next \/ SentryBreaks

SpecTelemetry == Init /\ [][NextTelemetry]_vars

\* The handler alone, on every request body up to MaxMsgs messages.
\* ------------------------------------------------ two requests in flight
\* Two invocations of POST run on the one event loop: each runs from one
\* await to the next without interruption (the awaits are request.json()
\* and the pulls of the upstream iterator), and the other may run in between.
\* Each has the locals of its own invocation; the Sentry client is the one
\* thing both reach.
MaxPairEvents == 1
PairBodies == { ObjectBody(ArrayValue(<<>>)), ObjectBody(ArrayValue(<<User("a")>>)) }
PairEvents == { TextDelta("a"), ToolProgress("search", 1) }

\* The locals of an invocation, with the Sentry client as it is now.
Attach(loc) ==
    [loc EXCEPT !.breadcrumbs = breadcrumbs, !.exceptions = exceptions,
                !.contexts = scopeContexts]
\* The locals alone.
Detach(s) ==
    [s EXCEPT !.breadcrumbs = <<>>, !.exceptions = <<>>, !.contexts = <<>>]
\* What the invocation recorded goes to the Sentry client.
Share(s) ==
    /\ breadcrumbs' = s.breadcrumbs
    /\ exceptions' = s.exceptions
    /\ scopeContexts' = s.contexts

SingleRequestUnchanged ==
    UNCHANGED <<pc, body, response, fullPrompt, queryCalled, upstream, pulled, lastEvent,
                chunkCount, textDeltaCount, toolsUsedCount, parseErrorCount,
                outbound, origin, streamState, closeRequested, delivered, cancelled,
                sentryFails, desktop>>

EventsPulled(inputs) == Len(SelectSeq(inputs, LAMBDA i : i.kind = "event"))

\* POST is entered and runs up to `await request.json()`.
PairEnter(r) ==
    /\ inflight[r].pc = "idle"
    /\ LET s == Received(Attach(inflight[r].loc))
       IN /\ Share(s)
          /\ inflight' = [inflight EXCEPT ![r].pc = "parsing", ![r].loc = Detach(s),
                            ![r].inputs = Append(@, [kind |-> "enter"])]
    /\ SingleRequestUnchanged

\* The body is parsed and the handler runs to its return.
PairPOST(r, b, queryThrows) ==
    /\ inflight[r].pc = "parsing"
    /\ LET h == Validated(Attach(inflight[r].loc), b, queryThrows)
       IN /\ Share(h.s)
          /\ inflight' = [inflight EXCEPT ![r].pc = h.pc, ![r].loc = Detach(h.s),
                            ![r].response = h.response, ![r].upstream = h.upstream,
                            ![r].inputs = Append(@, [kind |-> "body", body |-> b,
                                                     queryThrows |-> queryThrows])]
    /\ SingleRequestUnchanged

PairPull(r, e) ==
    /\ inflight[r].pc = "streaming"
    /\ EventsPulled(inflight[r].inputs) < MaxPairEvents
    /\ LET st == AfterTry(LoopBody(Attach(inflight[r].loc), e), 0, "streaming")
       IN /\ Share(st.s)
          /\ inflight' = [inflight EXCEPT ![r].pc = st.pc, ![r].loc = Detach(st.s),
                            ![r].upstream = IF st.pc = "streaming" THEN @ ELSE "returned",
                            ![r].inputs = Append(@, [kind |-> "event", event |-> e])]
    /\ SingleRequestUnchanged

PairExhaust(r) ==
    /\ inflight[r].pc = "streaming"
    /\ LET st == AfterTry(Closing(Attach(inflight[r].loc), 0), 0, "done")
       IN /\ Share(st.s)
          /\ inflight' = [inflight EXCEPT ![r].pc = st.pc, ![r].loc = Detach(st.s),
                            ![r].upstream = "exhausted",
                            ![r].inputs = Append(@, [kind |-> "exhausted"])]
    /\ SingleRequestUnchanged

PairThrow(r, error) ==
    /\ inflight[r].pc = "streaming"
    /\ LET st == AfterTry([Attach(inflight[r].loc) EXCEPT !.thrown = error], 0, "streaming")
       IN /\ Share(st.s)
          /\ inflight' = [inflight EXCEPT ![r].pc = st.pc, ![r].loc = Detach(st.s),
                            ![r].upstream = "threw",
                            ![r].inputs = Append(@, [kind |-> "threw", error |-> error])]
    /\ SingleRequestUnchanged

\* The client of one request disconnects.
PairCancel(r) ==
    /\ inflight[r].loc.streamState = "readable"
    /\ inflight' = [inflight EXCEPT ![r].loc.streamState = "closed", ![r].cancelled = TRUE,
                      ![r].inputs = Append(@, [kind |-> "cancel"])]
    /\ UNCHANGED <<breadcrumbs, exceptions, scopeContexts>>
    /\ SingleRequestUnchanged

PairEnters == \E r \in Requests : PairEnter(r)
PairRequest == \E r \in Requests, b \in PairBodies, queryThrows \in BOOLEAN :
                   PairPOST(r, b, queryThrows)
PairPullEvent == \E r \in Requests, e \in PairEvents : PairPull(r, e)
PairExhausts == \E r \in Requests : PairExhaust(r)
PairPullThrows == \E r \in Requests : PairThrow(r, NonErrorValue)
PairCancels == \E r \in Requests : PairCancel(r)

NextPair ==
    PairEnters \/ PairRequest \/ PairPullEvent \/ PairExhausts \/ PairPullThrows
      \/ PairCancels

SpecPair == Init /\ [][NextPair]_vars

\* ------------------------------------------------------ window manager
\* WindowManagerProvider of part_001. Each operation is one state update:
\* the updater passed to setTopZIndex computes newZ, calls setWindows with
\* it and returns it. Sentry.addBreadcrumb inside the updaters is kept as
\* the last record made.
MaxRaises == 3
WindowIds == {"chat", "notes"}
Positions == {<<0, 0>>, <<40, 20>>}
Sizes == {<<600, 400>>, <<800, 600>>}
\* What a caller passes to openWindow: a WindowState without zIndex and
\* isFocused.
NewWindows ==
    { [id |-> id, title |-> id, x |-> 0, y |-> 0, width |-> 600, height |-> 400,
       isMinimized |-> m, isMaximized |-> FALSE] : id \in WindowIds, m \in BOOLEAN }

\* prev.find(w => w.id === id) found something
Exists(prev, id) == \E i \in DOMAIN prev : prev[i].id = id
\* prev.find(w => w.id === id)
Find(prev, id) == prev[CHOOSE i \in DOMAIN prev : prev[i].id = id /\ \A j \in 1..(i - 1) : prev[j].id # id]
Breadcrumb(message, id) == [message |-> message, window_id |-> id]

\* A focus that leaves the other windows as they are.
FocusedKeepingOthers(prev, id, newZ) ==
    [i \in DOMAIN prev |->
        LET w == prev[i]
        IN IF w.id = id THEN [w EXCEPT !.isFocused = TRUE, !.zIndex = newZ] ELSE w]

\* focusWindow's map.
Focused(prev, id, newZ) ==
    [i \in DOMAIN prev |->
        LET w == prev[i]
        IN IF w.id = id THEN [w EXCEPT !.isFocused = TRUE, !.zIndex = newZ]
                ELSE [w EXCEPT !.isFocused = FALSE]]

\* A restore that leaves the window at the z-index it had.
RestoredInPlace(prev, id, newZ) ==
    [i \in DOMAIN prev |->
        LET w == prev[i]
        IN IF w.id = id THEN [w EXCEPT !.isMinimized = FALSE, !.isFocused = TRUE]
                ELSE [w EXCEPT !.isFocused = FALSE]]

\* restoreWindow's map, which is also openWindow's on a minimized window.
Restored(prev, id, newZ) ==
    [i \in DOMAIN prev |->
        LET w == prev[i]
        IN IF w.id = id
                THEN [w EXCEPT !.isMinimized = FALSE, !.isFocused = TRUE, !.zIndex = newZ]
                ELSE [w EXCEPT !.isFocused = FALSE]]

\* openWindow's updater of the window list.
Opened(prev, window, newZ) ==
    IF Exists(prev, window.id)
    THEN IF Find(prev, window.id).isMinimized
         THEN Restored(prev, window.id, newZ)
         ELSE Focused(prev, window.id, newZ)
    ELSE Append([i \in DOMAIN prev |-> [prev[i] EXCEPT !.isFocused = FALSE]],
                [id |-> window.id, title |-> window.title, x |-> window.x, y |-> window.y,
                 width |-> window.width, height |-> window.height,
                 isMinimized |-> window.isMinimized, isMaximized |-> window.isMaximized,
                 zIndex |-> newZ, isFocused |-> TRUE])

Closed(prev, id) == SelectSeq(prev, LAMBDA w : w.id # id)

Minimized(prev, id) ==
    [i \in DOMAIN prev |->
        LET w == prev[i]
        IN IF w.id = id THEN [w EXCEPT !.isMinimized = TRUE, !.isFocused = FALSE] ELSE w]

Maximized(prev, id) ==
    [i \in DOMAIN prev |->
        LET w == prev[i]
        IN IF w.id = id THEN [w EXCEPT !.isMaximized = ~@] ELSE w]

Moved(prev, id, x, y) ==
    [i \in DOMAIN prev |->
        LET w == prev[i]
        IN IF w.id = id THEN [w EXCEPT !.x = x, !.y = y] ELSE w]

Resized(prev, id, width, height) ==
    [i \in DOMAIN prev |->
        LET w == prev[i]
        IN IF w.id = id THEN [w EXCEPT !.width = width, !.height = height] ELSE w]

RelayUnchanged ==
    UNCHANGED <<pc, body, response, fullPrompt, queryCalled, upstream, pulled, lastEvent,
                chunkCount, textDeltaCount, toolsUsedCount, parseErrorCount,
                breadcrumbs, exceptions, outbound, origin, streamState, closeRequested,
                delivered, cancelled, sentryFails, scopeContexts, inflight>>

openWindow(window) ==
    /\ topZIndex < InitialZIndex + MaxRaises
    /\ LET newZ == topZIndex + 1
       IN /\ windows' = Opened(windows, window, newZ)
          /\ topZIndex' = newZ
    /\ windowBreadcrumb' =
          IF ~Exists(windows, window.id) THEN Breadcrumb(<<"Window opened">>, window.id)
          ELSE IF Find(windows, window.id).isMinimized
          THEN Breadcrumb(<<"Window restored via open">>, window.id)
          ELSE Breadcrumb(<<"Window focused via open">>, window.id)
    /\ RelayUnchanged

closeWindow(id) ==
    /\ windows' = Closed(windows, id)
    /\ windowBreadcrumb' = IF Exists(windows, id) THEN Breadcrumb(<<"Window closed">>, id)
                           ELSE windowBreadcrumb
    /\ UNCHANGED topZIndex
    /\ RelayUnchanged

minimizeWindow(id) ==
    /\ windows' = Minimized(windows, id)
    /\ windowBreadcrumb' = IF Exists(windows, id) THEN Breadcrumb(<<"Window minimized">>, id)
                           ELSE windowBreadcrumb
    /\ UNCHANGED topZIndex
    /\ RelayUnchanged

maximizeWindow(id) ==
    /\ windows' = Maximized(windows, id)
    /\ windowBreadcrumb' =
          IF Exists(windows, id)
          THEN Breadcrumb(<<"Window ", IF Find(windows, id).isMaximized THEN "restore"
                                       ELSE "maximize">>, id)
          ELSE windowBreadcrumb
    /\ UNCHANGED topZIndex
    /\ RelayUnchanged

restoreWindow(id) ==
    /\ topZIndex < InitialZIndex + MaxRaises
    /\ LET newZ == topZIndex + 1
       IN /\ windows' = Restored(windows, id, newZ)
          /\ topZIndex' = newZ
    /\ windowBreadcrumb' = IF Exists(windows, id) THEN Breadcrumb(<<"Window restored">>, id)
                           ELSE windowBreadcrumb
    /\ RelayUnchanged

focusWindow(id) ==
    /\ topZIndex < InitialZIndex + MaxRaises
    /\ LET newZ == topZIndex + 1
       IN /\ windows' = Focused(windows, id, newZ)
          /\ topZIndex' = newZ
    /\ windowBreadcrumb' =
          IF Exists(windows, id) /\ ~Find(windows, id).isFocused
          THEN Breadcrumb(<<"Window focused">>, id)
          ELSE windowBreadcrumb
    /\ RelayUnchanged

updateWindowPosition(id, x, y) ==
    /\ windows' = Moved(windows, id, x, y)
    /\ UNCHANGED <<topZIndex, windowBreadcrumb>>
    /\ RelayUnchanged

updateWindowSize(id, width, height) ==
    /\ windows' = Resized(windows, id, width, height)
    /\ UNCHANGED <<topZIndex, windowBreadcrumb>>
    /\ RelayUnchanged

Open == \E window \in NewWindows : openWindow(window)
Close == \E id \in WindowIds : closeWindow(id)
Minimize == \E id \in WindowIds : minimizeWindow(id)
Maximize == \E id \in WindowIds : maximizeWindow(id)
Restore == \E id \in WindowIds : restoreWindow(id)
Focus == \E id \in WindowIds : focusWindow(id)
Move == \E id \in WindowIds, p \in Positions : updateWindowPosition(id, p[1], p[2])
Resize == \E id \in WindowIds, z \in Sizes : updateWindowSize(id, z[1], z[2])

NextWindows ==
    Open \/ Close \/ Minimize \/ Maximize \/ Restore \/ Focus \/ Move \/ Resize

SpecWindows == Init /\ [][NextWindows]_vars

AnyRequest == \E b \in Bodies, queryThrows \in BOOLEAN : POST(b, queryThrows)

NextPost == AnyRequest

SpecPost == Init /\ [][NextPost]_vars

\* ================================================================ claims
Terminal == pc \in {"done", "failed", "crashed"}
Indices(type) == { i \in DOMAIN outbound : FrameType(outbound[i]) = type }
IsPrefix(a, b) == Len(a) <= Len(b) /\ SubSeq(b, 1, Len(a)) = a
Items == body.messages.items

\* C1: when the relay has ended, however the upstream iteration ended, and
\* the client stayed connected, the outbound stream holds exactly one
\* `data: [DONE]` sentinel, it is the last chunk enqueued, and the stream's
\* close was requested.
C1_SentinelOnEveryPath ==
    (Terminal /\ ~cancelled) =>
        /\ Cardinality(Indices("[DONE]")) = 1
        /\ outbound[Len(outbound)] = DoneSentinel
        /\ closeRequested

\* C2: when the relay has ended (the client connected throughout), the
\* number of `done` plus `error` frames in the outbound stream is exactly one.
C2_OneTerminalFrame ==
    (Terminal /\ ~cancelled) =>
        Cardinality(Indices("done") \cup Indices("error")) = 1

\* C3: once an upstream event was pulled, the chunk right before the
\* `[DONE]` sentinel is a `done` frame or an `error` frame.
C3_TerminalFrameBeforeSentinel ==
    \A i \in Indices("[DONE]") :
        pulled >= 1 => i > 1 /\ FrameType(outbound[i - 1]) \in {"done", "error"}

\* C4: when the pending pull rejects (client connected), the outbound
\* stream becomes the frames already emitted, then one `error` frame, then
\* `[DONE]`, and its close is requested.
C4_ThrowEndsWithErrorThenSentinel ==
    [][ (upstream = "open" /\ upstream' = "threw" /\ ~cancelled) =>
          /\ Len(outbound') = Len(outbound) + 2
          /\ IsPrefix(outbound, outbound')
          /\ FrameType(outbound'[Len(outbound) + 1]) = "error"
          /\ outbound'[Len(outbound) + 2] = DoneSentinel
          /\ closeRequested' ]_vars

\* The frames section 4.3 of the specification gives for one upstream event.
ExpectedFrames(e) ==
    IF e.type = "stream_event"
    THEN IF e.event.type = "content_block_delta" /\ e.event.delta.type = "text_delta"
         THEN <<Frame([type |-> "text_delta", text |-> e.event.delta.text])>>
         ELSE <<>>
    ELSE IF e.type = "assistant"
    THEN IF e.message.isArray
         THEN LET tools == SelectSeq(e.message.content, LAMBDA b : b.type = "tool_use")
              IN [i \in 1..Len(tools) |-> Frame([type |-> "tool_start", tool |-> tools[i].name])]
         ELSE <<>>
    ELSE IF e.type = "tool_progress"
    THEN <<Frame([type |-> "tool_progress", tool |-> e.tool_name,
                  elapsed |-> e.elapsed_time_seconds])>>
    ELSE IF e.type = "result"
    THEN IF e.subtype = "success"
         THEN <<Frame([type |-> "done"])>>
         ELSE <<Frame([type |-> "error", message |-> "Query did not complete successfully"])>>
    ELSE <<>>

OriginBefore(a, b) == a[1] < b[1] \/ (a[1] = b[1] /\ a[2] < b[2])

\* The chunks of the outbound stream are in the order of the events, and
\* within one event in the order of its blocks.
OutboundOrdered ==
    /\ Len(origin) = Len(outbound)
    /\ \A i \in 1..(Len(origin) - 1) : OriginBefore(origin[i], origin[i + 1])

\* C5: the outbound stream is append-only and order-preserving: a step only
\* appends, the chunks are in the order of the events they come from (block
\* order within one assistant message), and a pulled event adds exactly its
\* own frames, in order, behind everything enqueued before.
C5_AppendOnlyInOrder ==
    /\ []OutboundOrdered
    /\ [][ /\ IsPrefix(outbound, outbound')
           /\ (pulled' = pulled + 1 /\ streamState = "readable") =>
                 outbound' = outbound \o ExpectedFrames(lastEvent') ]_vars

\* Two tool_start frames of one assistant message, in block order, between
\* the frame of an earlier event and the frame of a later one.
C5_Witness ==
    \E i \in 2..(Len(outbound) - 2) :
        /\ origin[i][1] = origin[i + 1][1]
        /\ origin[i][2] = 1 /\ origin[i + 1][2] = 2
        /\ outbound[i] = Frame([type |-> "tool_start", tool |-> "search"])
        /\ outbound[i + 1] = Frame([type |-> "tool_start", tool |-> "read"])
        /\ origin[i - 1][1] < origin[i][1]
        /\ origin[i + 1][1] < origin[i + 2][1]

\* The parsed body has no array-typed `messages` property.
NoArrayMessages ==
    \/ body.kind \in {"null", "number", "string"}
    \/ body.kind = "object" /\ body.messages.kind # "array"

\* C6: a parsed body without an array-typed `messages` is answered 400
\* `Messages array is required`, the validation breadcrumb is the last one
\* recorded before the response, and query() is not called.
C6_MissingMessagesIs400 ==
    (pc # "idle" /\ NoArrayMessages) =>
        /\ response = JsonResponse(400, "Messages array is required")
        /\ breadcrumbs[Len(breadcrumbs)].message = <<"Validation error: missing messages">>
        /\ breadcrumbs[Len(breadcrumbs)].level = "warning"
        /\ ~queryCalled

\* `messages` is an array without an entry of role `user`.
NoUserEntry ==
    /\ body.kind = "object"
    /\ body.messages.kind = "array"
    /\ \A i \in 1..Len(Items) : ~(Items[i].kind = "object" /\ Items[i].role = "user")

\* C7: a `messages` array without an entry of role `user` is answered 400
\* `No user message found`, and query() is not called.
C7_NoUserMessageIs400 ==
    (pc # "idle" /\ NoUserEntry) =>
        /\ response = JsonResponse(400, "No user message found")
        /\ ~queryCalled

\* The place of the most recent user turn, and a sequence without one place.
LastUserIndex(items) ==
    CHOOSE i \in 1..Len(items) :
        IsUser(items[i]) /\ \A j \in (i + 1)..Len(items) : ~IsUser(items[j])
RemoveAt(items, i) == SubSeq(items, 1, i - 1) \o SubSeq(items, i + 1, Len(items))

\* C8: for a validated request the prompt is built from every message
\* except the most recent user turn, in order, and that turn's content
\* follows the final `User: `.
C8_TranscriptOmitsLastUserTurn ==
    response.status = 200 =>
        fullPrompt = BuildPrompt(RemoveAt(Items, LastUserIndex(Items)),
                                 Items[LastUserIndex(Items)].content)

\* The counters of the summary breadcrumb are the counters now.
SummaryIsFinal ==
    \A i \in DOMAIN breadcrumbs :
        breadcrumbs[i].message = <<"Chat stream completed">> =>
            /\ breadcrumbs[i].data.chunk_count = chunkCount
            /\ breadcrumbs[i].data.text_delta_count = textDeltaCount
            /\ breadcrumbs[i].data.tools_used_count = toolsUsedCount
            /\ breadcrumbs[i].data.parse_error_count = parseErrorCount

\* C9: chunkCount is the number of upstream events pulled, textDeltaCount
\* is at most chunkCount, no counter ever decreases, and the summary
\* breadcrumb carries the counters' final values.
C9_CountersCorrect ==
    /\ [](chunkCount = pulled /\ textDeltaCount <= chunkCount /\ SummaryIsFinal)
    /\ [][ /\ chunkCount' >= chunkCount
           /\ textDeltaCount' >= textDeltaCount
           /\ toolsUsedCount' >= toolsUsedCount
           /\ parseErrorCount' >= parseErrorCount ]_vars

\* The summary was recorded after text deltas and other events were pulled.
C9_Witness ==
    /\ pc = "done"
    /\ \E i \in DOMAIN breadcrumbs : breadcrumbs[i].message = <<"Chat stream completed">>
    /\ chunkCount = MaxEvents
    /\ textDeltaCount >= 1 /\ textDeltaCount < chunkCount
    /\ toolsUsedCount >= 1

\* C10: once the client has disconnected and an enqueue has failed on the
\* cancelled stream, no further upstream event is pulled.
C10_CancelStopsPulling ==
    [][ (cancelled /\ parseErrorCount > 0) => pulled' = pulled ]_vars

\* Chunks enqueued and not yet read by the client.
Unread == Len(outbound) - delivered

\* C11: while the stream is open, the number of chunks enqueued and not yet
\* read never exceeds the outbound queue's bound.
C11_QueueWithinBound ==
    streamState = "readable" => Unread <= HighWaterMark

\* C12: with a failing telemetry client, a pulled event still adds exactly
\* its own frames to an open stream and the relay goes on streaming; the
\* failure is swallowed.
C12_TelemetryFailureSwallowed ==
    [][ (sentryFails /\ pulled' = pulled + 1 /\ streamState = "readable") =>
          /\ outbound' = outbound \o ExpectedFrames(lastEvent')
          /\ pc' = "streaming" ]_vars

\* C13: an exception raised while pulling or processing an upstream event
\* is caught at the stream boundary: start() never ends with an uncaught
\* exception, and the stream is never errored nor, once the relay has
\* ended, left unclosed.
C13_CaughtAtStreamBoundary ==
    /\ pc # "crashed"
    /\ streamState # "errored"
    /\ Terminal => (closeRequested \/ streamState = "closed")

\* The exceptions captured with a location tag.
Captured(location) ==
    { i \in DOMAIN exceptions : exceptions[i].tags.error_location = location }
ValidationTexts == {"Messages array is required", "No user message found"}
LastBreadcrumb == breadcrumbs[Len(breadcrumbs)]

\* C14: the status is decided before streaming: 400 with one of the two
\* validation texts exactly when the validation breadcrumb ends the
\* handler, 500 with the generic JSON error exactly when the handler's
\* catch block captured an exception, 200 with the event-stream headers
\* exactly when the stream was constructed; a failure of the upstream agent
\* (on query() or on any pull) leaves the status 200 and is captured as a
\* stream-processing error only.
C14_StatusDecidedBeforeStreaming ==
    pc # "idle" =>
        /\ response.status \in {200, 400, 500}
        /\ response.status = 400 <=>
              /\ LastBreadcrumb.category = "chat.validation"
              /\ response.contentType = "application/json"
              /\ response.body.error \in ValidationTexts
              /\ exceptions = <<>>
        /\ response.status = 500 <=>
              /\ Captured("api_handler") # {}
              /\ response = JsonResponse(500,
                     "Failed to process chat request. Check server logs for details.")
        /\ response.status = 200 <=> streamState # "none"
        /\ response.status = 200 => response = StreamResponse
        /\ response.status # 200 => ~queryCalled
        /\ (upstream = "threw" \/ (queryCalled /\ upstream = "none")) =>
              /\ response.status = 200
              /\ Captured("api_handler") = {}
              /\ Captured("stream_processing") # {}

\* query() threw when the stream was constructed: the response is the 200
\* stream, which holds the error frame.
C14_Witness ==
    /\ pc = "failed" /\ queryCalled /\ upstream = "none"
    /\ response = StreamResponse
    /\ Indices("error") # {}

\* What the client can see of the relay's state after a step of start().
Wire(st) ==
    [outbound |-> st.s.outbound, streamState |-> st.s.streamState,
     closeRequested |-> st.s.closeRequested]
NonSuccessSubtypes == {"error_max_turns", "error_during_execution"}
GenericErrorTexts == {"Query did not complete successfully", "Stream error occurred"}

\* C15: the text the client sees does not depend on internal detail: every
\* error frame carries one of the fixed texts, a 500 carries the fixed JSON
\* text, and from every streaming state the stream after the next step is
\* the same for any two non-success result subtypes and for any two values
\* the pull rejects with.
C15_ErrorTextIsGeneric ==
    /\ \A i \in Indices("error") : outbound[i][2].json.message \in GenericErrorTexts
    /\ (response.status = 500 /\ response.contentType = "application/json") =>
          response.body.error = "Failed to process chat request. Check server logs for details."
    /\ pc = "streaming" =>
          /\ \A a, b \in NonSuccessSubtypes :
                Wire(AfterTry(LoopBody(Local, Result(a)), delivered, "streaming"))
                  = Wire(AfterTry(LoopBody(Local, Result(b)), delivered, "streaming"))
          /\ \A a, b \in UpstreamErrors :
                Wire(AfterTry([Local EXCEPT !.thrown = a], delivered, "streaming"))
                  = Wire(AfterTry([Local EXCEPT !.thrown = b], delivered, "streaming"))

\* A non-success result and then a rejected pull: both error frames are in
\* the stream.
C15_Witness ==
    /\ pc = "failed" /\ upstream = "threw"
    /\ lastEvent \in { Result(sub) : sub \in NonSuccessSubtypes }
    /\ { outbound[i][2].json.message : i \in Indices("error") } = GenericErrorTexts

\* The invocation with the given id and inputs, run with no other request
\* in the process: its locals and what it recorded with the Sentry client.
RECURSIVE Alone(_, _)
Alone(id, inputs) ==
    IF inputs = <<>>
    THEN [s |-> Entered(id), pc |-> "idle", response |-> NoResponse, upstream |-> "none"]
    ELSE LET before == Alone(id, SubSeq(inputs, 1, Len(inputs) - 1))
             i == inputs[Len(inputs)]
         IN IF i.kind = "enter"
            THEN [before EXCEPT !.s = Received(before.s), !.pc = "parsing"]
            ELSE IF i.kind = "body"
            THEN LET h == Validated(before.s, i.body, i.queryThrows)
                 IN [s |-> h.s, pc |-> h.pc, response |-> h.response, upstream |-> h.upstream]
            ELSE IF i.kind = "event"
            THEN LET st == AfterTry(LoopBody(before.s, i.event), 0, "streaming")
                 IN [before EXCEPT !.s = st.s, !.pc = st.pc,
                                   !.upstream = IF st.pc = "streaming" THEN @ ELSE "returned"]
            ELSE IF i.kind = "exhausted"
            THEN LET st == AfterTry(Closing(before.s, 0), 0, "done")
                 IN [before EXCEPT !.s = st.s, !.pc = st.pc, !.upstream = "exhausted"]
            ELSE IF i.kind = "threw"
            THEN LET st == AfterTry([before.s EXCEPT !.thrown = i.error], 0, "streaming")
                 IN [before EXCEPT !.s = st.s, !.pc = st.pc, !.upstream = "threw"]
            ELSE [before EXCEPT !.s.streamState = "closed"]

\* The records of a request in what the Sentry client was given.
OwnBreadcrumbs(id) == SelectSeq(breadcrumbs, LAMBDA c : c.data.request_id = id)
OwnExceptions(id) == SelectSeq(exceptions, LAMBDA x : x.tags.request_id = id)
OwnContexts(id) == SelectSeq(scopeContexts, LAMBDA c : c.value.request_id = id)

C17_FailedDeltaIsSkipped ==
    [][ (/\ pulled' = pulled + 1
         /\ lastEvent' = TextDelta("a")
         /\ ~(streamState = "readable" /\ ~closeRequested)) =>
          /\ parseErrorCount' = parseErrorCount + 1
          /\ Len(breadcrumbs') = Len(breadcrumbs) + 1
          /\ IsPrefix(breadcrumbs, breadcrumbs')
          /\ breadcrumbs'[Len(breadcrumbs')].level = "warning"
          /\ breadcrumbs'[Len(breadcrumbs')].data.error_type = "text_delta_encoding"
          /\ outbound' = outbound
          /\ exceptions' = exceptions
          /\ pc' = "streaming" /\ upstream' = upstream ]_vars

\* A text delta failed to enqueue and a later event was pulled and
\* classified with the relay still in its loop.
C17_Witness ==
    /\ pc = "streaming"
    /\ parseErrorCount = 1 /\ textDeltaCount = 1
    /\ pulled = 2 /\ chunkCount = 2
    /\ lastEvent = SystemEvent

\* The iterator was exhausted (Closing was entered); the catch block ran.
ClosingReached == upstream = "exhausted"
FailedReached == Captured("stream_processing") # {}

\* C18: a relay that has left the loop is in exactly one of the terminal
\* states Closing and Failed, never both.
C18_ExactlyOneTerminalState ==
    Terminal =>
        /\ pc \in {"done", "failed"}
        /\ ~(ClosingReached /\ FailedReached)

\* C19: a success result enqueues a done frame and neither closes the
\* stream nor ends the loop: the events after it are still counted and
\* forwarded, and [DONE] is in the stream only once the iterator is
\* exhausted.
C19_SuccessDoesNotEndTheStream ==
    /\ [](Indices("[DONE]") # {} => upstream = "exhausted")
    /\ []((Indices("done") # {} /\ upstream = "open") => (pc = "streaming" /\ ~closeRequested))
    /\ [][ (pulled' = pulled + 1 /\ streamState = "readable") =>
             /\ lastEvent' = Result("success") =>
                   /\ outbound' = Append(outbound, Frame([type |-> "done"]))
                   /\ pc' = "streaming" /\ ~closeRequested' /\ streamState' = "readable"
             /\ Indices("done") # {} =>
                   /\ chunkCount' = chunkCount + 1
                   /\ outbound' = outbound \o ExpectedFrames(lastEvent') ]_vars

\* A done frame, then the frame of a later event, then [DONE].
C19_Witness ==
    \E i, j, k \in DOMAIN outbound :
        /\ i < j /\ j < k
        /\ FrameType(outbound[i]) = "done"
        /\ FrameType(outbound[j]) \in {"text_delta", "tool_start", "tool_progress"}
        /\ FrameType(outbound[k]) = "[DONE]"

\* An event the relay has no arm for: an unrecognized tag, a stream_event
\* that is no text delta, an assistant message without a tool_use block.
Ignored(e) ==
    \/ e.type \notin {"stream_event", "assistant", "tool_progress", "result"}
    \/ e.type = "stream_event" /\ e \notin {TextDelta("a")}
    \/ /\ e.type = "assistant"
       /\ \A i \in DOMAIN e.message.content : e.message.content[i].type # "tool_use"

\* C20: an ignored event enqueues no frame, records no telemetry and
\* leaves textDeltaCount, toolsUsedCount and parseErrorCount unchanged;
\* chunkCount grows by exactly one.
C20_IgnoredEventOnlyCounts ==
    [][ (pulled' = pulled + 1 /\ Ignored(lastEvent')) =>
          /\ chunkCount' = chunkCount + 1
          /\ outbound' = outbound
          /\ breadcrumbs' = breadcrumbs /\ exceptions' = exceptions
          /\ textDeltaCount' = textDeltaCount
          /\ toolsUsedCount' = toolsUsedCount
          /\ parseErrorCount' = parseErrorCount
          /\ pc' = "streaming" ]_vars

\* An ignored event was pulled after an event that produced a frame.
C20_Witness ==
    /\ pc = "streaming"
    /\ Ignored(lastEvent) /\ lastEvent.type = "assistant"
    /\ chunkCount = 2 /\ Len(outbound) = 1
    /\ Len(breadcrumbs) = 3

\* The breadcrumbs with a given message.
Recorded(message) == { i \in DOMAIN breadcrumbs : breadcrumbs[i].message = message }
Summaries == Recorded(<<"Chat stream completed">>)
StreamErrors == Recorded(<<"Stream error">>)

\* C21: the summary breadcrumb is recorded exactly once when the upstream
\* iterator was exhausted, after [DONE] was enqueued and the close asked
\* for, and never otherwise; the stream-error breadcrumb and the exception
\* report are recorded exactly once when the relay failed and never when
\* the iterator was exhausted.
C21_TelemetryMatchesPath ==
    /\ Summaries # {} =>
          /\ upstream = "exhausted"
          /\ Indices("[DONE]") # {}
          /\ closeRequested \/ streamState = "closed"
    /\ upstream = "exhausted" =>
          /\ Cardinality(Summaries) = 1
          /\ StreamErrors = {}
          /\ Captured("stream_processing") = {}
    /\ (Terminal /\ upstream # "exhausted") =>
          /\ Summaries = {}
          /\ Cardinality(StreamErrors) = 1
          /\ Cardinality(Captured("stream_processing")) = 1

\* C22: at every point of the streaming, the text_delta frames enqueued
\* are textDeltaCount - parseErrorCount, the tool_start frames enqueued are
\* toolsUsedCount, and parseErrorCount is at most textDeltaCount.
C22_FramesMatchCounters ==
    pc \notin {"idle", "responded"} =>
        /\ Cardinality(Indices("text_delta")) = textDeltaCount - parseErrorCount
        /\ Cardinality(Indices("tool_start")) = toolsUsedCount
        /\ parseErrorCount <= textDeltaCount

FocusedWindows == { i \in DOMAIN windows : windows[i].isFocused }

\* C23: after any sequence of window-manager operations, on ids that are
\* in the list or not, at most one window is focused and no two windows of
\* the list have the same id.
C23_OneFocusUniqueIds ==
    /\ Cardinality(FocusedWindows) <= 1
    /\ \A i, j \in DOMAIN windows : windows[i].id = windows[j].id => i = j

\* Two windows are open and the focus has moved from the window opened
\* last back to the one opened first.
C23_Witness ==
    /\ Len(windows) = 2
    /\ Cardinality(FocusedWindows) = 1
    /\ windows[1].isFocused /\ windows[1].zIndex > windows[2].zIndex
    /\ windowBreadcrumb.message = <<"Window focused">>

\* C24: topZIndex never decreases, every window's zIndex is at most
\* topZIndex, the windows' zIndex are pairwise distinct, and a focused
\* window has zIndex = topZIndex, above every other window.
C24_ZOrder ==
    /\ [][topZIndex' >= topZIndex]_vars
    /\ [](\A i \in DOMAIN windows : windows[i].zIndex <= topZIndex)
    /\ [](\A i, j \in DOMAIN windows : windows[i].zIndex = windows[j].zIndex => i = j)
    /\ [](\A i \in FocusedWindows :
             /\ windows[i].zIndex = topZIndex
             /\ \A j \in DOMAIN windows : j # i => windows[j].zIndex < windows[i].zIndex)

\* A minimized window was restored over another window: it is focused, at
\* topZIndex, after topZIndex was raised more than once.
C24_Witness ==
    /\ Len(windows) = 2
    /\ windowBreadcrumb.message = <<"Window restored">>
    /\ windows[1].isFocused /\ windows[1].zIndex = topZIndex
    /\ topZIndex >= InitialZIndex + 3

====
